---- MODULE Spec2Model ----
(***************************************************************************)
(* Model of src/background.js (witnessEx): the Persian text normalizer,    *)
(* the HTML escaper, the credential store adapter, the building of the     *)
(* result page, and the context-menu click handler that looks a selected   *)
(* name up at the remote API, with its single retry on an invalid API key. *)
(*                                                                         *)
(* Spec and FairSpec run one click at a time; ConcSpec interleaves two     *)
(* handler invocations at their awaits.  NormSpec, ClassSpec, EscSpec and  *)
(* RenderSpec apply the pure functions to bounded sets of arguments.       *)
(*                                                                         *)
(* Strings that the code inspects character by character (selection text,  *)
(* API keys, the JSON error field) are sequences of UTF-16 code units.     *)
(* Fixed message texts are TLA+ strings.                                   *)
(*                                                                         *)
(* A handler invocation ("flow") is a process suspended at one await at a  *)
(* time; pc[f] names the pending await.  One action resumes the flow from  *)
(* that await, runs the synchronous code that follows it and issues the    *)
(* next awaited call.  Every call made to the outside (storage, prompt,    *)
(* alert, fetch, popup) is appended to log[f] when it is issued, and the    *)
(* value storage.get, the prompt and fetch resolve to when it is received. *)
(*                                                                         *)
(* Environment: chrome.scripting.executeScript and chrome.storage are      *)
(* taken to complete (their promises resolve); fetch and Response.text     *)
(* may reject; window.open may be blocked.                                 *)
(***************************************************************************)
EXTENDS Integers, Sequences, FiniteSets, TLC

VARIABLES
  store,      \* chrome.storage.local value under "apikey" (a string)
  event,      \* per flow: the click the listener was called with (info, tab)
  pc,         \* per flow: the await the handler is suspended at
  name,       \* per flow: const name (normalized selection)
  apiKey,     \* per flow: let apiKey
  newApiKey,  \* per flow: const newApiKey
  res,        \* per flow: const res  (first Response)
  retryRes,   \* per flow: const retryRes
  parsed,     \* per flow: let parsed
  log,        \* per flow: the outside calls issued and the values received, in order
  nIn,        \* pure functions on their own: the argument
  nOut        \* pure functions on their own: results of successive applications

flowVars == <<store, event, pc, name, apiKey, newApiKey, res, retryRes, parsed, log>>
normVars == <<nIn, nOut>>
vars == <<store, event, pc, name, apiKey, newApiKey, res, retryRes, parsed, log, nIn, nOut>>

----------------------------------------------------------------------------
(* JavaScript values where the code accepts any value                       *)

\* null and undefined are one value: the code never tells them apart.
JUndef == <<"undefined">>
JStr(s) == <<"string", s>>
JBool(b) == <<"boolean", b>>
JNum(n) == <<"number", n>>
JObj(r) == <<"object", r>>
JArr(a) == <<"array", a>>

\* ToBoolean: what `!v`, `v ? a : b`, `v || w` and `v && w` test.
Truthy(v) ==
  CASE v[1] = "undefined" -> FALSE
    [] v[1] = "string" -> v[2] # <<>>
    [] v[1] = "boolean" -> v[2]
    [] v[1] = "number" -> v[2] # 0
    [] v[1] \in {"object", "array"} -> TRUE

\* Decimal digits of a natural number, as code units.
RECURSIVE Digits(_)
Digits(n) == IF n < 10 THEN <<48 + n>> ELSE Append(Digits(n \div 10), 48 + (n % 10))

\* String(v)
String(v) ==
  CASE v[1] = "undefined" -> <<117, 110, 100, 101, 102, 105, 110, 101, 100>>
    [] v[1] = "string" -> v[2]
    [] v[1] = "boolean" -> IF v[2] THEN <<116, 114, 117, 101>> ELSE <<102, 97, 108, 115, 101>>
    [] v[1] = "number" -> Digits(v[2])

----------------------------------------------------------------------------
(* Strings as sequences of code units                                       *)

\* The set of strings over alphabet A of length at most n.
StringsUpTo(A, n) == UNION {[1..k -> A] : k \in 0..n}

\* The concatenation of a sequence of strings.
RECURSIVE Concat(_)
Concat(ss) == IF ss = <<>> THEN <<>> ELSE Head(ss) \o Concat(Tail(ss))

\* In the operators on strings below the argument is bound to its value
\* once, by the quantified t, and the result is the one element of the set.

\* The code units matched by \s in a JavaScript regular expression, which are
\* also the ones String.prototype.trim strips.
IsWhiteSpace(c) ==
  \/ c \in {9, 10, 11, 12, 13, 32, 160, 5760, 8232, 8233, 8239, 8287, 12288, 65279}
  \/ c \in 8192..8202

\* String.prototype.trim
Trim(s) ==
  LET Strip(t) ==
        LET idx == {i \in 1..Len(t) : ~IsWhiteSpace(t[i])}
            lo == CHOOSE i \in idx : \A j \in idx : i <= j
            hi == CHOOSE i \in idx : \A j \in idx : i >= j
        IN IF idx = {} THEN <<>> ELSE SubSeq(t, lo, hi)
  IN CHOOSE out \in {Strip(t) : t \in {s}} : TRUE

\* s.replace(/\s+/g, " "): each maximal run of white space becomes one space.
CollapseWhiteSpace(s) ==
  LET Collapse(t) ==
        Concat([i \in 1..Len(t) |->
                  IF IsWhiteSpace(t[i])
                  THEN IF i > 1 /\ IsWhiteSpace(t[i - 1]) THEN <<>> ELSE <<32>>
                  ELSE <<t[i]>>])
  IN CHOOSE out \in {Collapse(t) : t \in {s}} : TRUE

\* String.prototype.toLowerCase on the ASCII letters (the only cased letters
\* of the modelled error messages).
ToLowerCase(s) ==
  CHOOSE out \in {Concat([i \in 1..Len(t) |-> IF t[i] \in 65..90 THEN <<t[i] + 32>> ELSE <<t[i]>>])
                    : t \in {s}} : TRUE

\* String.prototype.includes
Includes(s, t) ==
  \E u \in {s} : \E i \in 1..(Len(u) - Len(t) + 1) : SubSeq(u, i, i + Len(t) - 1) = t

----------------------------------------------------------------------------
(* normalizePersian                                                         *)

\* /[#_()]/g -> " "
SymbolToSpace(c) == IF c \in {35, 95, 40, 41} THEN <<32>> ELSE <<c>>
SymbolsToSpaces(s) ==
  CHOOSE out \in {Concat([i \in 1..Len(t) |-> SymbolToSpace(t[i])]) : t \in {s}} : TRUE

\* /[U+200B-U+200F U+202A-U+202E U+2060 U+FEFF]/g -> " "
\* A plausible slip: the word joiner U+2060 is missing from the class.
IsZeroWidthNoWordJoiner(c) == c \in (8203..8207) \cup (8234..8238) \cup {65279}

IsZeroWidth(c) == c \in (8203..8207) \cup (8234..8238) \cup {8288, 65279}
ZeroWidthToSpace(c) == IF IsZeroWidth(c) THEN <<32>> ELSE <<c>>
ZeroWidthsToSpaces(s) ==
  CHOOSE out \in {Concat([i \in 1..Len(t) |-> ZeroWidthToSpace(t[i])]) : t \in {s}} : TRUE

\* The chain of letter replacements and the two comma removals.
ArabicToPersian(c) ==
  CASE c = 1610 -> <<1740>>               \* U+064A yeh -> U+06CC
    [] c = 1603 -> <<1705>>               \* U+0643 kaf -> U+06A9
    [] c = 1577 -> <<1607>>               \* U+0629 teh marbuta -> U+0647 heh
    [] c = 1572 -> <<1608>>               \* U+0624 waw with hamza -> U+0648 waw
    [] c \in {1573, 1571, 1649} -> <<1575>> \* U+0625, U+0623, U+0671 -> U+0627 alef
    [] c = 1548 -> <<>>                   \* U+060C Arabic comma
    [] c = 44 -> <<>>                     \* Latin comma
    [] OTHER -> <<c>>
\* A plausible slip: the replacement of the Arabic kaf is left out.
ArabicLettersToPersianNoKaf(s) ==
  CHOOSE out \in {Concat([i \in 1..Len(t) |->
                            IF t[i] = 1603 THEN <<1603>> ELSE ArabicToPersian(t[i])])
                    : t \in {s}} : TRUE

ArabicLettersToPersian(s) ==
  CHOOSE out \in {Concat([i \in 1..Len(t) |-> ArabicToPersian(t[i])]) : t \in {s}} : TRUE

\* /[U+0610-U+061A U+064B-U+065F U+0670 U+06D6-U+06ED U+0640]/g -> ""
IsDiacritic(c) == c \in (1552..1562) \cup (1611..1631) \cup {1648, 1600} \cup (1750..1773)
StripDiacritic(c) == IF IsDiacritic(c) THEN <<>> ELSE <<c>>
StripDiacritics(s) ==
  CHOOSE out \in {Concat([i \in 1..Len(t) |-> StripDiacritic(t[i])]) : t \in {s}} : TRUE

\* The two digit strings of the replacer callbacks: U+06F0..U+06F9 and
\* U+0660..U+0669.
PersianDigits == <<1776, 1777, 1778, 1779, 1780, 1781, 1782, 1783, 1784, 1785>>
ArabicIndicDigits == <<1632, 1633, 1634, 1635, 1636, 1637, 1638, 1639, 1640, 1641>>

\* String.prototype.indexOf for one code unit (counted from 0; -1 if absent)
IndexOf(s, c) ==
  IF \E i \in 1..Len(s) : s[i] = c
  THEN (CHOOSE i \in 1..Len(s) : s[i] = c /\ \A j \in 1..(i - 1) : s[j] # c) - 1
  ELSE -1

\* /[U+0660-U+0669]/g -> the Persian digit at the index of the match in the
\* Arabic-Indic digit string
ArabicIndicDigit(c) ==
  IF c \in 1632..1641 THEN <<PersianDigits[IndexOf(ArabicIndicDigits, c) + 1]>> ELSE <<c>>
ArabicIndicDigitsToPersian(s) ==
  CHOOSE out \in {Concat([i \in 1..Len(t) |-> ArabicIndicDigit(t[i])]) : t \in {s}} : TRUE

\* /[0-9]/g -> the Persian digit at index charCode - 48
\* A plausible slip: the callback indexes the Arabic-Indic digit string.
LatinDigitToArabicIndic(c) == IF c \in 48..57 THEN <<ArabicIndicDigits[(c - 48) + 1]>> ELSE <<c>>

LatinDigit(c) == IF c \in 48..57 THEN <<PersianDigits[(c - 48) + 1]>> ELSE <<c>>
LatinDigitsToPersian(s) ==
  CHOOSE out \in {Concat([i \in 1..Len(t) |-> LatinDigit(t[i])]) : t \in {s}} : TRUE

\* A plausible slip: white space is normalized before the commas and the
\* diacritics are removed, so their removal can leave two spaces together.
normalizePersianEarlyCollapse(text) ==
  IF ~Truthy(text) THEN <<>>
  ELSE LatinDigitsToPersian(ArabicIndicDigitsToPersian(StripDiacritics(
         ArabicLettersToPersian(Trim(CollapseWhiteSpace(
           ZeroWidthsToSpaces(SymbolsToSpaces(String(text)))))))))

normalizePersian(text) ==
  IF ~Truthy(text) THEN <<>>
  ELSE Trim(CollapseWhiteSpace(
         LatinDigitsToPersian(ArabicIndicDigitsToPersian(StripDiacritics(
           ArabicLettersToPersian(ZeroWidthsToSpaces(SymbolsToSpaces(String(text)))))))))

----------------------------------------------------------------------------
(* escapeHtml                                                               *)

AmpEntity(c) == IF c = 38 THEN <<38, 97, 109, 112, 59>> ELSE <<c>>          \* & -> &amp;
LtEntity(c) == IF c = 60 THEN <<38, 108, 116, 59>> ELSE <<c>>               \* < -> &lt;
GtEntity(c) == IF c = 62 THEN <<38, 103, 116, 59>> ELSE <<c>>               \* > -> &gt;
QuotEntity(c) == IF c = 34 THEN <<38, 113, 117, 111, 116, 59>> ELSE <<c>>   \* " -> &quot;
AposEntity(c) == IF c = 39 THEN <<38, 35, 48, 51, 57, 59>> ELSE <<c>>       \* ' -> &#039;

ReplaceAmp(s) ==
  CHOOSE out \in {Concat([i \in 1..Len(t) |-> AmpEntity(t[i])]) : t \in {s}} : TRUE
ReplaceLt(s) ==
  CHOOSE out \in {Concat([i \in 1..Len(t) |-> LtEntity(t[i])]) : t \in {s}} : TRUE
ReplaceGt(s) ==
  CHOOSE out \in {Concat([i \in 1..Len(t) |-> GtEntity(t[i])]) : t \in {s}} : TRUE
ReplaceQuot(s) ==
  CHOOSE out \in {Concat([i \in 1..Len(t) |-> QuotEntity(t[i])]) : t \in {s}} : TRUE
ReplaceApos(s) ==
  CHOOSE out \in {Concat([i \in 1..Len(t) |-> AposEntity(t[i])]) : t \in {s}} : TRUE

\* A plausible slip: the ampersand is replaced last, so the entities of the
\* other four replacements are escaped again.
escapeHtmlAmpLast(str) ==
  ReplaceAmp(ReplaceApos(ReplaceQuot(ReplaceGt(ReplaceLt(
    IF str[1] = "undefined" THEN <<>> ELSE String(str))))))

escapeHtml(str) ==
  ReplaceApos(ReplaceQuot(ReplaceGt(ReplaceLt(ReplaceAmp(
    IF str[1] = "undefined" THEN <<>> ELSE String(str))))))

----------------------------------------------------------------------------
(* The values the outside world can hand to the handler                     *)

Flows == {1, 2}

\* chrome.storage.local starts unset or holding a key saved by an earlier run.
InitialStores == {JUndef, JStr(<<107, 49>>)}

\* What window.prompt returns: null on Cancel, otherwise the text typed
\* (empty, blank, a key with blanks around it, a key).
PromptAnswers ==
  {JUndef, JStr(<<>>), JStr(<<32, 32>>), JStr(<<32, 107, 50, 32>>), JStr(<<107, 49>>)}

\* info.menuItemId
MenuItemIds == {"check-name", "other"}

\* tab && tab.id
TabIds == {JUndef, JNum(7)}

\* info.selectionText: absent, "# " (normalizes to ""), Arabic-script "ain lam
\* yeh" with a trailing blank, and "(k3)"; then more texts that normalize to
\* "": "", blank and tab, "_()", the two commas, ZWNJ and fathatan.
SelectionTexts ==
  {JUndef, JStr(<<35, 32>>), JStr(<<1593, 1604, 1610, 32>>), JStr(<<40, 107, 51, 41>>),
   JStr(<<>>), JStr(<<32, 9>>), JStr(<<95, 40, 41>>), JStr(<<1548, 44>>), JStr(<<8204, 1611>>)}

\* Response.status
Statuses == {200, 401}

\* Response.ok
ok(r) == r.status \in 200..299

\* "invalid api key"
InvalidApiKeyText == <<105, 110, 118, 97, 108, 105, 100, 32, 97, 112, 105, 32, 107, 101, 121>>

\* JSON error fields a server may send: "Invalid API key",
\* "E: INVALID API KEY", "Rate limit", "Invalid key" and the empty string.
ErrorTexts ==
  { <<73, 110, 118, 97, 108, 105, 100, 32, 65, 80, 73, 32, 107, 101, 121>>,
    <<69, 58, 32, 73, 78, 86, 65, 76, 73, 68, 32, 65, 80, 73, 32, 75, 69, 89>>,
    <<82, 97, 116, 101, 32, 108, 105, 109, 105, 116>>,
    <<73, 110, 118, 97, 108, 105, 100, 32, 107, 101, 121>>,
    <<>> }

\* One Match of the response (the fields the page shows).
Match(n) == [fullName |-> JStr(<<1593, 1604, 1740, 32, 48 + n>>), isDeleted |-> JStr(<<48 + (n % 2)>>),
             link |-> JUndef]

\* A decoded JSON object of the API.
Envelope(error, exists, count, matches) ==
  JObj([error |-> error, exist |-> JUndef, exists |-> exists, count |-> count, matches |-> matches])

\* Response bodies: text JSON.parse rejects, the JSON text null, error
\* envelopes, and lookup results.
NotJson == [json |-> FALSE, value |-> JUndef]
Json(v) == [json |-> TRUE, value |-> v]
Bodies ==
  {NotJson, Json(JUndef)}
  \cup {Json(Envelope(JStr(e), JUndef, JUndef, JUndef)) : e \in ErrorTexts}
  \cup {Json(Envelope(JUndef, JBool(TRUE), JNum(2), JArr(<<Match(1), Match(2)>>))),
        Json(Envelope(JUndef, JBool(FALSE), JNum(0), JArr(<<>>)))}

----------------------------------------------------------------------------
(* Credential store adapter and the page-context dialogs                    *)

\* getApiKeyFromStorage: what its promise resolves to when storage holds v.
getApiKeyFromStorage(v) == IF Truthy(v) THEN String(v) ELSE <<>>

\* setApiKeyToStorage: the stored value after chrome.storage.local.set.
setApiKeyToStorage(key) == JStr(key)

\* A plausible slip: the typed text is not trimmed.
promptForApiKeyNoTrim(v) == IF Truthy(v) THEN String(v) ELSE <<>>

\* promptForApiKey: what its promise resolves to when window.prompt returned v.
promptForApiKey(v) ==
  LET result == IF Truthy(v) THEN Trim(String(v)) ELSE <<>>
  IN IF result # <<>> THEN result ELSE <<>>

\* A plausible slip: the comparison is case-sensitive.
IsInvalidApiKeyCaseSensitive(err) == Includes(err, InvalidApiKeyText)

\* A plausible slip: any error that mentions "invalid" counts.
IsInvalidApiKeyLoose(err) == Includes(ToLowerCase(err), <<105, 110, 118, 97, 108, 105, 100>>)

\* err.toLowerCase().includes("invalid api key")
IsInvalidApiKey(err) == Includes(ToLowerCase(err), InvalidApiKeyText)

\* parsed && parsed.error
HasError(p) == Truthy(p) /\ Truthy(p[2].error)

----------------------------------------------------------------------------
(* Building the page                                                        *)

\* The characters encodeURIComponent leaves as they are: A-Z a-z 0-9 and
\* - _ . ! ~ * ' ( )
IsUnreserved(c) ==
  c \in (65..90) \cup (97..122) \cup (48..57) \cup {45, 95, 46, 33, 126, 42, 39, 40, 41}

IsHighSurrogate(c) == c \in 55296..56319
IsLowSurrogate(c) == c \in 56320..57343

\* encodeURIComponent throws a URIError on a surrogate that is not half of a
\* pair.
IsWellFormed(s) ==
  \A i \in 1..Len(s) :
    /\ IsHighSurrogate(s[i]) => (i < Len(s) /\ IsLowSurrogate(s[i + 1]))
    /\ IsLowSurrogate(s[i]) => (i > 1 /\ IsHighSurrogate(s[i - 1]))

\* The UTF-8 bytes of a code point.
Utf8(cp) ==
  IF cp < 128 THEN <<cp>>
  ELSE IF cp < 2048 THEN <<192 + (cp \div 64), 128 + (cp % 64)>>
  ELSE IF cp < 65536
  THEN <<224 + (cp \div 4096), 128 + ((cp \div 64) % 64), 128 + (cp % 64)>>
  ELSE <<240 + (cp \div 262144), 128 + ((cp \div 4096) % 64),
         128 + ((cp \div 64) % 64), 128 + (cp % 64)>>

\* %XX with upper-case hexadecimal digits.
HexDigit(n) == IF n < 10 THEN 48 + n ELSE 55 + n
PercentByte(b) == <<37, HexDigit(b \div 16), HexDigit(b % 16)>>
PercentEncode(cp) == Concat([i \in 1..Len(Utf8(cp)) |-> PercentByte(Utf8(cp)[i])])

\* encodeURIComponent of a well-formed string.
encodeURIComponent(s) ==
  CHOOSE out \in
    {Concat([i \in 1..Len(t) |->
               IF IsUnreserved(t[i]) THEN <<t[i]>>
               ELSE IF IsLowSurrogate(t[i]) THEN <<>>
               ELSE IF IsHighSurrogate(t[i])
               THEN PercentEncode(65536 + (t[i] - 55296) * 1024 + (t[i + 1] - 56320))
               ELSE PercentEncode(t[i])]) : t \in {s}} : TRUE

\* "https://www.google.com/search?q="
GoogleSearch ==
  <<104, 116, 116, 112, 115, 58, 47, 47, 119, 119, 119, 46, 103, 111, 111, 103, 108, 101,
    46, 99, 111, 109, 47, 115, 101, 97, 114, 99, 104, 63, 113, 61>>

\* const existVal = parsed.exist ?? parsed.exists
existVal(p) == IF p[2].exist[1] # "undefined" THEN p[2].exist ELSE p[2].exists

\* A plausible slip: the flag is tested for truthiness.
existsTruthy(p) == Truthy(existVal(p))

\* const exists = existVal === "1" || existVal === 1 || existVal === true ||
\*                String(existVal).toLowerCase() === "true"
exists(p) ==
  \/ existVal(p) = JStr(<<49>>)
  \/ existVal(p) = JNum(1)
  \/ existVal(p) = JBool(TRUE)
  \/ ToLowerCase(String(existVal(p))) = <<116, 114, 117, 101>>

\* exists && parsed.matches && parsed.matches.length > 0
Found(p) == exists(p) /\ Truthy(p[2].matches) /\ Len(p[2].matches[2]) > 0

\* A plausible slip: the block shows the index of forEach as it is.
MatchBlockZeroBased(match, index) ==
  [index |-> index,
   fullName |-> escapeHtml(match.fullName),
   status |-> IF escapeHtml(match.isDeleted) = <<49>> THEN "Deleted" ELSE "Active"]

\* The block of one match: `${index + 1}. ${fullName}` and the status label
\* (forEach counts index from 0).
MatchBlock(match, index) ==
  [index |-> index + 1,
   fullName |-> escapeHtml(match.fullName),
   status |-> IF escapeHtml(match.isDeleted) = <<49>> THEN "Deleted" ELSE "Active"]

\* Building the page throws: the not-found branch calls encodeURIComponent.
RenderThrows(nm, p) == ~Found(p) /\ ~IsWellFormed(nm)

\* The branch taken and what the page is made of: the banner with its count
\* and plural suffix, the escaped search term, one block per match, and the
\* href of the web-search link (none on the found page).  parsed.count is a
\* JSON number or absent.
RenderPage(nm, p) ==
  LET matches == p[2].matches
      count == IF Truthy(p[2].count) THEN p[2].count[2] ELSE Len(matches[2])
  IN IF Found(p)
     THEN [banner |-> "FOUND", count |-> count, suffix |-> IF count > 1 THEN "ES" ELSE "",
           search |-> escapeHtml(JStr(nm)),
           blocks |-> [i \in 1..Len(matches[2]) |-> MatchBlock(matches[2][i], i - 1)],
           link |-> <<>>]
     ELSE [banner |-> "NOT FOUND", count |-> 0, suffix |-> "",
           search |-> escapeHtml(JStr(nm)), blocks |-> <<>>,
           link |-> escapeHtml(JStr(GoogleSearch \o encodeURIComponent(nm)))]

----------------------------------------------------------------------------
(* The chrome.contextMenus.onClicked listener                               *)

NoResponse == [status |-> 0, body |-> NotJson]

\* No click yet.
NoEvent == [menuItemId |-> "", tabId |-> JUndef, selectionText |-> JUndef]

Running(f) == pc[f] \notin {"idle", "returned", "done"}

\* The flow goes on to the await named p, having issued the calls es.
Resume(f, p, es) ==
  /\ pc' = [pc EXCEPT ![f] = p]
  /\ log' = [log EXCEPT ![f] = @ \o es]

\* catch (e): showAlert(tabId, `Error checking name:\n${e.message}`)
Throw(f, es, message) ==
  Resume(f, "alertError", es \o << <<"alert", <<"Error checking name:", message>>>> >>)

\* fetch(url, {method: "POST", body: form}) with the form's two fields.
Request(nm, key) == <<"fetch", [name |-> nm, apikey |-> key]>>

\* A plausible slip: the check `if (!name) return` is missing.
OnClickedNoNameGuard(f, menuItemId, tabId, selectionText) ==
  LET trimmed == Trim(IF Truthy(selectionText) THEN String(selectionText) ELSE <<>>)
      nm == normalizePersian(JStr(trimmed))
      proceed == menuItemId = "check-name" /\ Truthy(tabId)
  IN /\ ~Running(f)
     /\ event' = [event EXCEPT ![f] = [menuItemId |-> menuItemId, tabId |-> tabId,
                                       selectionText |-> selectionText]]
     /\ name' = [name EXCEPT ![f] = IF proceed THEN nm ELSE <<>>]
     /\ apiKey' = [apiKey EXCEPT ![f] = <<>>]
     /\ newApiKey' = [newApiKey EXCEPT ![f] = <<>>]
     /\ res' = [res EXCEPT ![f] = NoResponse]
     /\ retryRes' = [retryRes EXCEPT ![f] = NoResponse]
     /\ parsed' = [parsed EXCEPT ![f] = JUndef]
     /\ pc' = [pc EXCEPT ![f] = IF proceed THEN "getApiKey" ELSE "returned"]
     /\ log' = [log EXCEPT ![f] = IF proceed THEN << <<"storage.get", <<>>>> >> ELSE <<>>]
     /\ UNCHANGED <<store, nIn, nOut>>

\* The listener up to its first await.
OnClicked(f, menuItemId, tabId, selectionText) ==
  LET trimmed == Trim(IF Truthy(selectionText) THEN String(selectionText) ELSE <<>>)
      nm == normalizePersian(JStr(trimmed))
      proceed == menuItemId = "check-name" /\ Truthy(tabId) /\ nm # <<>>
  IN /\ ~Running(f)
     /\ event' = [event EXCEPT ![f] = [menuItemId |-> menuItemId, tabId |-> tabId,
                                       selectionText |-> selectionText]]
     /\ name' = [name EXCEPT ![f] = IF proceed THEN nm ELSE <<>>]
     /\ apiKey' = [apiKey EXCEPT ![f] = <<>>]
     /\ newApiKey' = [newApiKey EXCEPT ![f] = <<>>]
     /\ res' = [res EXCEPT ![f] = NoResponse]
     /\ retryRes' = [retryRes EXCEPT ![f] = NoResponse]
     /\ parsed' = [parsed EXCEPT ![f] = JUndef]
     /\ pc' = [pc EXCEPT ![f] = IF proceed THEN "getApiKey" ELSE "returned"]
     /\ log' = [log EXCEPT ![f] = IF proceed THEN << <<"storage.get", <<>>>> >> ELSE <<>>]
     /\ UNCHANGED <<store, nIn, nOut>>

\* let apiKey = await getApiKeyFromStorage(); if (!apiKey) ...
GetApiKeyResolved(f) ==
  LET key == getApiKeyFromStorage(store)
  IN /\ pc[f] = "getApiKey"
     /\ apiKey' = [apiKey EXCEPT ![f] = key]
     /\ IF key = <<>>
        THEN Resume(f, "prompt1", << <<"storage.got", store>>, <<"prompt", <<>>>> >>)
        ELSE Resume(f, "fetch1", << <<"storage.got", store>>, Request(name[f], key) >>)
     /\ UNCHANGED <<store, name, newApiKey, res, retryRes, parsed, event, nIn, nOut>>

\* apiKey = await promptForApiKey(tabId); if (!apiKey) ...
Prompt1Resolved(f) ==
  /\ pc[f] = "prompt1"
  /\ \E v \in PromptAnswers :
       LET key == promptForApiKey(v)
       IN /\ apiKey' = [apiKey EXCEPT ![f] = key]
          /\ IF key = <<>>
             THEN Resume(f, "alertRequired1",
                         << <<"prompt.answer", v>>, <<"alert", <<"API key is required.">>>> >>)
             ELSE Resume(f, "setKey1", << <<"prompt.answer", v>>, <<"storage.set", key>> >>)
  /\ UNCHANGED <<store, name, newApiKey, res, retryRes, parsed, event, nIn, nOut>>

\* await showAlert(tabId, "API key is required."); return;
AlertRequired1Resolved(f) ==
  /\ pc[f] = "alertRequired1"
  /\ Resume(f, "done", <<>>)
  /\ UNCHANGED <<store, name, apiKey, newApiKey, res, retryRes, parsed, event, nIn, nOut>>

\* await setApiKeyToStorage(apiKey); then the first fetch is issued.
SetKey1Resolved(f) ==
  /\ pc[f] = "setKey1"
  /\ store' = setApiKeyToStorage(apiKey[f])
  /\ Resume(f, "fetch1", <<Request(name[f], apiKey[f])>>)
  /\ UNCHANGED <<name, apiKey, newApiKey, res, retryRes, parsed, event, nIn, nOut>>

\* const res = await fetch(...), then res.text() is called.
Fetch1Resolved(f) ==
  /\ pc[f] = "fetch1"
  /\ \E st \in Statuses, b \in Bodies :
       /\ res' = [res EXCEPT ![f] = [status |-> st, body |-> b]]
       /\ Resume(f, "text1", << <<"response", [status |-> st, body |-> b]>> >>)
  /\ UNCHANGED <<store, name, apiKey, newApiKey, retryRes, parsed, event, nIn, nOut>>

\* A plausible slip: the fetch is outside the try block, so its rejection
\* ends the flow without an alert.
Fetch1RejectedUncaught(f) ==
  /\ pc[f] = "fetch1"
  /\ Resume(f, "done", <<>>)
  /\ UNCHANGED <<store, name, apiKey, newApiKey, res, retryRes, parsed, event, nIn, nOut>>

\* fetch rejects (the transport call cannot complete).
Fetch1Rejected(f) ==
  /\ pc[f] = "fetch1"
  /\ Throw(f, <<>>, <<"Failed to fetch">>)
  /\ UNCHANGED <<store, name, apiKey, newApiKey, res, retryRes, parsed, event, nIn, nOut>>

\* `Response not JSON. HTTP ${status}\n${raw.slice(0, 500)}`
NotJsonMessage(r) == <<"Response not JSON. HTTP", r.status>>

\* `HTTP ${status}\n${raw.slice(0, 500)}`
HttpMessage(r) == <<"HTTP", r.status>>

\* `Server error: ${err}`
ServerMessage(err) == <<"Server error:", err>>

\* if (!res.ok) throw ...; build the page from parsed; await showPopup(...).
\* Reading parsed.exist of null throws a TypeError.
CheckOkAndShow(f, p) ==
  IF ~ok(res[f]) THEN Throw(f, <<>>, HttpMessage(res[f]))
  ELSE IF ~Truthy(p) THEN Throw(f, <<>>, <<"TypeError">>)
  ELSE IF RenderThrows(name[f], p) THEN Throw(f, <<>>, <<"URI malformed">>)
  ELSE Resume(f, "showPopup", << <<"showPopup", RenderPage(name[f], p)>> >>)

\* const raw = await res.text(); JSON.parse; the error checks of the first
\* response.
Text1Resolved(f) ==
  LET raw == res[f].body
      p == raw.value
  IN /\ pc[f] = "text1"
     /\ IF ~raw.json
        THEN /\ Throw(f, <<>>, NotJsonMessage(res[f]))
             /\ UNCHANGED parsed
        ELSE /\ parsed' = [parsed EXCEPT ![f] = p]
             /\ IF HasError(p)
                THEN IF IsInvalidApiKey(String(p[2].error))
                     THEN Resume(f, "clearKey1", << <<"storage.set", <<>>>> >>)
                     ELSE Throw(f, <<>>, ServerMessage(String(p[2].error)))
                ELSE CheckOkAndShow(f, p)
     /\ UNCHANGED <<store, name, apiKey, newApiKey, res, retryRes, event, nIn, nOut>>

\* res.text() rejects (the body cannot be read).
Text1Rejected(f) ==
  /\ pc[f] = "text1"
  /\ Throw(f, <<>>, <<"Failed to fetch">>)
  /\ UNCHANGED <<store, name, apiKey, newApiKey, res, retryRes, parsed, event, nIn, nOut>>

\* await setApiKeyToStorage(""); then the notice is shown.
ClearKey1Resolved(f) ==
  /\ pc[f] = "clearKey1"
  /\ store' = setApiKeyToStorage(<<>>)
  /\ Resume(f, "alertInvalid", << <<"alert", <<"Invalid API key. Please enter a new one.">>>> >>)
  /\ UNCHANGED <<name, apiKey, newApiKey, res, retryRes, parsed, event, nIn, nOut>>

\* await showAlert(tabId, "Invalid API key. ..."); then the prompt is opened.
AlertInvalidResolved(f) ==
  /\ pc[f] = "alertInvalid"
  /\ Resume(f, "prompt2", << <<"prompt", <<>>>> >>)
  /\ UNCHANGED <<store, name, apiKey, newApiKey, res, retryRes, parsed, event, nIn, nOut>>

\* const newApiKey = await promptForApiKey(tabId); if (!newApiKey) ...
Prompt2Resolved(f) ==
  /\ pc[f] = "prompt2"
  /\ \E v \in PromptAnswers :
       LET key == promptForApiKey(v)
       IN /\ newApiKey' = [newApiKey EXCEPT ![f] = key]
          /\ IF key = <<>>
             THEN Resume(f, "alertRequired2",
                         << <<"prompt.answer", v>>, <<"alert", <<"API key is required.">>>> >>)
             ELSE Resume(f, "setKey2", << <<"prompt.answer", v>>, <<"storage.set", key>> >>)
  /\ UNCHANGED <<store, name, apiKey, res, retryRes, parsed, event, nIn, nOut>>

\* await showAlert(tabId, "API key is required."); return;
AlertRequired2Resolved(f) ==
  /\ pc[f] = "alertRequired2"
  /\ Resume(f, "done", <<>>)
  /\ UNCHANGED <<store, name, apiKey, newApiKey, res, retryRes, parsed, event, nIn, nOut>>

\* A plausible slip: the retry form is filled with apiKey, the key of the
\* first request.
SetKey2ResolvedOldKey(f) ==
  /\ pc[f] = "setKey2"
  /\ store' = setApiKeyToStorage(newApiKey[f])
  /\ Resume(f, "fetch2", <<Request(name[f], apiKey[f])>>)
  /\ UNCHANGED <<name, apiKey, newApiKey, res, retryRes, parsed, event, nIn, nOut>>

\* await setApiKeyToStorage(newApiKey); then the retry fetch is issued.
SetKey2Resolved(f) ==
  /\ pc[f] = "setKey2"
  /\ store' = setApiKeyToStorage(newApiKey[f])
  /\ Resume(f, "fetch2", <<Request(name[f], newApiKey[f])>>)
  /\ UNCHANGED <<name, apiKey, newApiKey, res, retryRes, parsed, event, nIn, nOut>>

\* const retryRes = await fetch(...), then retryRes.text() is called.
Fetch2Resolved(f) ==
  /\ pc[f] = "fetch2"
  /\ \E st \in Statuses, b \in Bodies :
       /\ retryRes' = [retryRes EXCEPT ![f] = [status |-> st, body |-> b]]
       /\ Resume(f, "text2", << <<"response", [status |-> st, body |-> b]>> >>)
  /\ UNCHANGED <<store, name, apiKey, newApiKey, res, parsed, event, nIn, nOut>>

\* The retry fetch rejects.
Fetch2Rejected(f) ==
  /\ pc[f] = "fetch2"
  /\ Throw(f, <<>>, <<"Failed to fetch">>)
  /\ UNCHANGED <<store, name, apiKey, newApiKey, res, retryRes, parsed, event, nIn, nOut>>

\* A plausible slip: an invalid key in the retry response starts the
\* clear-and-prompt sequence again instead of ending the flow.
Text2ResolvedRetryAgain(f) ==
  LET retryRaw == retryRes[f].body
      p == retryRaw.value
  IN /\ pc[f] = "text2"
     /\ IF ~retryRaw.json
        THEN /\ Throw(f, <<>>, NotJsonMessage(retryRes[f]))
             /\ UNCHANGED parsed
        ELSE /\ parsed' = [parsed EXCEPT ![f] = p]
             /\ IF HasError(p) /\ IsInvalidApiKey(String(p[2].error))
                THEN Resume(f, "clearKey1", << <<"storage.set", <<>>>> >>)
                ELSE IF ~ok(retryRes[f]) /\ ~HasError(p)
                THEN Throw(f, <<>>, HttpMessage(retryRes[f]))
                ELSE IF HasError(p)
                THEN Throw(f, <<>>, ServerMessage(String(p[2].error)))
                ELSE CheckOkAndShow(f, p)
     /\ UNCHANGED <<store, name, apiKey, newApiKey, res, retryRes, event, nIn, nOut>>

\* A plausible slip: the HTTP status of the retry is tested before its JSON
\* error field.
Text2ResolvedStatusFirst(f) ==
  LET retryRaw == retryRes[f].body
      p == retryRaw.value
  IN /\ pc[f] = "text2"
     /\ IF ~retryRaw.json
        THEN /\ Throw(f, <<>>, NotJsonMessage(retryRes[f]))
             /\ UNCHANGED parsed
        ELSE /\ parsed' = [parsed EXCEPT ![f] = p]
             /\ IF HasError(p) /\ IsInvalidApiKey(String(p[2].error))
                THEN Resume(f, "clearKey2", << <<"storage.set", <<>>>> >>)
                ELSE IF ~ok(retryRes[f])
                THEN Throw(f, <<>>, HttpMessage(retryRes[f]))
                ELSE IF HasError(p)
                THEN Throw(f, <<>>, ServerMessage(String(p[2].error)))
                ELSE CheckOkAndShow(f, p)
     /\ UNCHANGED <<store, name, apiKey, newApiKey, res, retryRes, event, nIn, nOut>>

\* const retryRaw = await retryRes.text(); JSON.parse; the checks of the
\* retry response; then the code after the if (parsed && parsed.error) block.
Text2Resolved(f) ==
  LET retryRaw == retryRes[f].body
      p == retryRaw.value
  IN /\ pc[f] = "text2"
     /\ IF ~retryRaw.json
        THEN /\ Throw(f, <<>>, NotJsonMessage(retryRes[f]))
             /\ UNCHANGED parsed
        ELSE /\ parsed' = [parsed EXCEPT ![f] = p]
             /\ IF HasError(p) /\ IsInvalidApiKey(String(p[2].error))
                THEN Resume(f, "clearKey2", << <<"storage.set", <<>>>> >>)
                ELSE IF ~ok(retryRes[f]) /\ ~HasError(p)
                THEN Throw(f, <<>>, HttpMessage(retryRes[f]))
                ELSE IF HasError(p)
                THEN Throw(f, <<>>, ServerMessage(String(p[2].error)))
                ELSE CheckOkAndShow(f, p)
     /\ UNCHANGED <<store, name, apiKey, newApiKey, res, retryRes, event, nIn, nOut>>

\* retryRes.text() rejects.
Text2Rejected(f) ==
  /\ pc[f] = "text2"
  /\ Throw(f, <<>>, <<"Failed to fetch">>)
  /\ UNCHANGED <<store, name, apiKey, newApiKey, res, retryRes, parsed, event, nIn, nOut>>

\* A plausible slip: the retry's invalid key is reported without clearing
\* the stored key.
ClearKey2ResolvedNoClear(f) ==
  /\ pc[f] = "clearKey2"
  /\ Throw(f, <<>>, ServerMessage(<<73, 110, 118, 97, 108, 105, 100, 32, 65, 80, 73, 32, 107, 101, 121>>))
  /\ UNCHANGED <<store, name, apiKey, newApiKey, res, retryRes, parsed, event, nIn, nOut>>

\* await setApiKeyToStorage(""); throw new Error("Server error: Invalid API key")
ClearKey2Resolved(f) ==
  /\ pc[f] = "clearKey2"
  /\ store' = setApiKeyToStorage(<<>>)
  /\ Throw(f, <<>>, ServerMessage(<<73, 110, 118, 97, 108, 105, 100, 32, 65, 80, 73, 32, 107, 101, 121>>))
  /\ UNCHANGED <<name, apiKey, newApiKey, res, retryRes, parsed, event, nIn, nOut>>

\* await showPopup(tabId, html): in the page window.open gave a window, which
\* is written to, or gave null, and the page alerts that the popup is blocked.
ShowPopupResolved(f) ==
  /\ pc[f] = "showPopup"
  /\ \E opened \in BOOLEAN :
       Resume(f, "done",
              IF opened THEN << <<"window", "written">> >>
              ELSE << <<"alert", <<"Popup blocked. Allow popups for this site.">>>> >>)
  /\ UNCHANGED <<store, name, apiKey, newApiKey, res, retryRes, parsed, event, nIn, nOut>>

\* await showAlert(tabId, `Error checking name: ...`) in the catch block.
AlertErrorResolved(f) ==
  /\ pc[f] = "alertError"
  /\ Resume(f, "done", <<>>)
  /\ UNCHANGED <<store, name, apiKey, newApiKey, res, retryRes, parsed, event, nIn, nOut>>

----------------------------------------------------------------------------
(* Specifications                                                           *)

FlowInit ==
  /\ store \in InitialStores
  /\ event = [f \in Flows |-> NoEvent]
  /\ pc = [f \in Flows |-> "idle"]
  /\ name = [f \in Flows |-> <<>>]
  /\ apiKey = [f \in Flows |-> <<>>]
  /\ newApiKey = [f \in Flows |-> <<>>]
  /\ res = [f \in Flows |-> NoResponse]
  /\ retryRes = [f \in Flows |-> NoResponse]
  /\ parsed = [f \in Flows |-> JUndef]
  /\ log = [f \in Flows |-> <<>>]

Init ==
  /\ FlowInit
  /\ nIn = JUndef
  /\ nOut = <<>>

\* A click; the user clicks again only once the previous flow has ended.
Click(f) ==
  /\ \A g \in Flows \ {f} : pc[g] = "idle"
  /\ \E m \in MenuItemIds, t \in TabIds, sel \in SelectionTexts : OnClicked(f, m, t, sel)

\* The continuations of a flow.
Step(f) ==
  \/ GetApiKeyResolved(f)
  \/ Prompt1Resolved(f)
  \/ AlertRequired1Resolved(f)
  \/ SetKey1Resolved(f)
  \/ Fetch1Resolved(f)
  \/ Fetch1Rejected(f)
  \/ Text1Resolved(f)
  \/ Text1Rejected(f)
  \/ ClearKey1Resolved(f)
  \/ AlertInvalidResolved(f)
  \/ Prompt2Resolved(f)
  \/ AlertRequired2Resolved(f)
  \/ SetKey2Resolved(f)
  \/ Fetch2Resolved(f)
  \/ Fetch2Rejected(f)
  \/ Text2Resolved(f)
  \/ Text2Rejected(f)
  \/ ClearKey2Resolved(f)
  \/ ShowPopupResolved(f)
  \/ AlertErrorResolved(f)

Next == \E f \in Flows : Click(f) \/ Step(f)

\* One flow at a time.
Spec == Init /\ [][Next]_vars

\* Every awaited call of a flow eventually settles.
FairSpec == Spec /\ \A f \in Flows : WF_vars(Step(f))

----------------------------------------------------------------------------
(* Two flows at once: the listener is called again while an earlier call is *)
(* suspended at an await.  Each flow is one click on a selected name; the   *)
(* server answers "Invalid API key" (401) or with a found result (200); the *)
(* user cancels the prompt or enters " k2 ".                                *)

ConcResponses ==
  {[status |-> 401,
    body |-> Json(Envelope(JStr(<<73, 110, 118, 97, 108, 105, 100, 32, 65, 80, 73, 32, 107, 101, 121>>),
                           JUndef, JUndef, JUndef))],
   [status |-> 200,
    body |-> Json(Envelope(JUndef, JBool(TRUE), JNum(2), JArr(<<Match(1), Match(2)>>)))]}

ConcPromptAnswers == {JUndef, JStr(<<32, 107, 50, 32>>)}

\* The responses and the prompt answers flow f has received are among these.
ConcInputs(f) ==
  /\ res[f] \in {NoResponse} \cup ConcResponses
  /\ retryRes[f] \in {NoResponse} \cup ConcResponses
  /\ \A i \in {j \in 1..Len(log[f]) : log[f][j][1] = "prompt.answer"} :
       log[f][i][2] \in ConcPromptAnswers

\* A click on the menu item with a name selected, in a flow not yet used.
ConcClick(f) ==
  /\ pc[f] = "idle"
  /\ OnClicked(f, "check-name", JNum(7), JStr(<<1593, 1604, 1610, 32>>))

\* The continuations of a flow, whatever the other flow is doing.
ConcStep(f) ==
  \/ GetApiKeyResolved(f)
  \/ Prompt1Resolved(f) /\ ConcInputs(f)'
  \/ AlertRequired1Resolved(f)
  \/ SetKey1Resolved(f)
  \/ Fetch1Resolved(f) /\ ConcInputs(f)'
  \/ Fetch1Rejected(f)
  \/ Text1Resolved(f)
  \/ Text1Rejected(f)
  \/ ClearKey1Resolved(f)
  \/ AlertInvalidResolved(f)
  \/ Prompt2Resolved(f) /\ ConcInputs(f)'
  \/ AlertRequired2Resolved(f)
  \/ SetKey2Resolved(f)
  \/ Fetch2Resolved(f) /\ ConcInputs(f)'
  \/ Fetch2Rejected(f)
  \/ Text2Resolved(f)
  \/ Text2Rejected(f)
  \/ ClearKey2Resolved(f)
  \/ ShowPopupResolved(f)
  \/ AlertErrorResolved(f)

ConcNext == \E f \in Flows : ConcClick(f) \/ ConcStep(f)

ConcSpec == Init /\ [][ConcNext]_vars

----------------------------------------------------------------------------
(* The normalizer on its own                                                *)

MaxLen == 3

\* Code units of every class the normalizer tells apart: # ( , tab, space,
\* Latin 3 and a, ZWNJ, BOM, Arabic comma, tatweel, Arabic yeh, fathatan,
\* Arabic-Indic 3, Persian yeh, Persian 3.
Alphabet == {35, 40, 44, 9, 32, 51, 97, 8204, 65279, 1548, 1600, 1610, 1611, 1635, 1740, 1779}

\* Arguments of normalizePersian: null, numbers and strings.
NormInputs ==
  {JUndef, JNum(0), JNum(30)} \cup {JStr(s) : s \in StringsUpTo(Alphabet, MaxLen)}

NormInit ==
  /\ FlowInit
  /\ store = JUndef
  /\ nIn \in NormInputs
  /\ nOut = <<>>

\* normalizePersian(x)
NormalizeInput ==
  /\ nOut = <<>>
  /\ nOut' = <<normalizePersian(nIn)>>
  /\ UNCHANGED <<flowVars, nIn>>

\* normalizePersian applied to its own result
NormalizeAgain ==
  /\ Len(nOut) = 1
  /\ nOut' = Append(nOut, normalizePersian(JStr(nOut[1])))
  /\ UNCHANGED <<flowVars, nIn>>

NormNext == NormalizeInput \/ NormalizeAgain

NormSpec == NormInit /\ [][NormNext]_vars

MaxCtx == 1

\* Every code unit of the classes the normalizer replaces or removes, the
\* targets of its replacements, the white space of \s, and code units of no
\* class: Latin A a z, . - ', hamza, alef maksura, Persian letters, Hebrew alef.
Units ==
  {35, 95, 40, 41, 44, 1548}
  \cup (8203..8207) \cup (8234..8238) \cup {8288, 65279}
  \cup {1610, 1603, 1577, 1572, 1573, 1571, 1649}
  \cup {1740, 1705, 1607, 1608, 1575}
  \cup (1552..1562) \cup (1611..1631) \cup {1648, 1600} \cup (1750..1773)
  \cup (48..57) \cup (1632..1641) \cup (1776..1785)
  \cup {9, 10, 11, 12, 13, 32, 160, 5760, 8232, 8233, 8239, 8287, 12288} \cup (8192..8202)
  \cup {65, 97, 122, 46, 45, 39, 1569, 1609, 1576, 1662, 1711, 1488}

\* What stands before and after the code unit: nothing, a blank, a Latin
\* letter, a diacritic.
Context == {32, 97, 1611}

\* Each unit on its own and between short contexts.
ClassInputs ==
  {JStr(p \o <<c>> \o q) : c \in Units, p \in StringsUpTo(Context, MaxCtx),
                            q \in StringsUpTo(Context, MaxCtx)}

ClassInit ==
  /\ FlowInit
  /\ store = JUndef
  /\ nIn \in NormInputs \cup ClassInputs
  /\ nOut = <<>>

ClassSpec == ClassInit /\ [][NormNext]_vars

----------------------------------------------------------------------------
(* The escaper on its own                                                   *)

MaxEsc == 4

\* & < > " ' ; # and the letters a l t (enough to spell "&lt;").
EscAlphabet == {38, 60, 62, 34, 39, 59, 35, 97, 108, 116}

\* Arguments of escapeHtml: null, numbers, booleans and strings.
EscInputs ==
  {JUndef, JNum(0), JNum(30), JBool(TRUE), JBool(FALSE)}
  \cup {JStr(s) : s \in StringsUpTo(EscAlphabet, MaxEsc)}

EscInit ==
  /\ FlowInit
  /\ store = JUndef
  /\ nIn \in EscInputs
  /\ nOut = <<>>

\* escapeHtml(x)
EscapeInput ==
  /\ nOut = <<>>
  /\ nOut' = <<escapeHtml(nIn)>>
  /\ UNCHANGED <<flowVars, nIn>>

EscNext == EscapeInput

EscSpec == EscInit /\ [][EscNext]_vars

----------------------------------------------------------------------------
(* Building the page on its own                                             *)

MaxMatches == 2

\* Names: "ain lam yeh", "a&'", an emoji (a surrogate pair) and a lone high
\* surrogate.
RenderNames == {<<1593, 1604, 1740>>, <<97, 38, 39>>, <<55357, 56832>>, <<55357>>}

\* Values of exist and of exists: absent, booleans, "1", "0", 1, 0, "TRUE", "yes".
ExistValues == {JUndef, JStr(<<49>>), JStr(<<48>>)}
ExistsValues ==
  {JUndef, JBool(TRUE), JBool(FALSE), JStr(<<49>>), JStr(<<48>>), JNum(1), JNum(0),
   JStr(<<84, 82, 85, 69>>), JStr(<<121, 101, 115>>)}

\* Values of count: absent or a number.
CountValues == {JUndef, JNum(0), JNum(1), JNum(2), JNum(5)}

\* Matches: two plain ones and one whose name is "<&>" and that has no
\* isDeleted.
RenderMatches ==
  {Match(1), Match(2), [fullName |-> JStr(<<60, 38, 62>>), isDeleted |-> JUndef, link |-> JUndef]}

\* Values of matches: absent or a list of up to MaxMatches matches.
MatchLists == {JUndef} \cup {JArr(ms) : ms \in StringsUpTo(RenderMatches, MaxMatches)}

\* Decoded responses without error field.
RenderResponses ==
  {JObj([error |-> JUndef, exist |-> x, exists |-> e, count |-> c, matches |-> ms]) :
     x \in ExistValues, e \in ExistsValues, c \in CountValues, ms \in MatchLists}

RenderInit ==
  /\ FlowInit
  /\ store = JUndef
  /\ nIn \in {<<"render", nm, r>> : nm \in RenderNames, r \in RenderResponses}
  /\ nOut = <<>>

\* The page is built from name and parsed, or building it throws.
RenderInput ==
  /\ nOut = <<>>
  /\ nOut' = IF RenderThrows(nIn[2], nIn[3])
             THEN << <<"throws", "URIError">> >>
             ELSE << <<"page", RenderPage(nIn[2], nIn[3])>> >>
  /\ UNCHANGED <<flowVars, nIn>>

RenderNext == RenderInput

RenderSpec == RenderInit /\ [][RenderNext]_vars

----------------------------------------------------------------------------
(* Vocabulary of the properties, read off the log of a flow                 *)

\* Positions of the log of flow f holding an event of kind op.
At(f, op) == {i \in 1..Len(log[f]) : log[f][i][1] = op}

Min(S) == CHOOSE i \in S : \A j \in S : i <= j
Max(S) == CHOOSE i \in S : \A j \in S : i >= j

Ended(f) == pc[f] = "done"

\* Error texts that name an invalid API key, in two letter cases:
\* "Invalid API key" and "E: INVALID API KEY".
InvalidCredentialTexts ==
  { <<73, 110, 118, 97, 108, 105, 100, 32, 65, 80, 73, 32, 107, 101, 121>>,
    <<69, 58, 32, 73, 78, 86, 65, 76, 73, 68, 32, 65, 80, 73, 32, 75, 69, 89>> }

\* The response is JSON text of an object.
IsObject(r) == r.body.json /\ r.body.value[1] = "object"

\* The response is JSON text of an object that has an error field.
HasErrorField(r) == IsObject(r) /\ r.body.value[2].error[1] # "undefined"

\* The response's JSON error field signals an invalid credential.
SignalsInvalid(r) == HasErrorField(r) /\ r.body.value[2].error[2] \in InvalidCredentialTexts

\* Answers to the prompt that are neither a cancel nor blank, and the key
\* each one enters.
EnteredKey(v) ==
  CASE v = JStr(<<32, 107, 50, 32>>) -> <<107, 50>>
    [] v = JStr(<<107, 49>>) -> <<107, 49>>
    [] OTHER -> <<>>

IsAlert(e, text) == e[1] = "alert" /\ e[2][1] = text
IsErrorAlert(e) == IsAlert(e, "Error checking name:")
IsRequiredAlert(e) == IsAlert(e, "API key is required.")
IsNoticeAlert(e) == IsAlert(e, "Invalid API key. Please enter a new one.")
IsBlockedAlert(e) == IsAlert(e, "Popup blocked. Allow popups for this site.")

\* The alerts that end a flow.
IsTerminalAlert(e) == IsErrorAlert(e) \/ IsRequiredAlert(e) \/ IsBlockedAlert(e)

----------------------------------------------------------------------------
(* Properties                                                               *)

\* C1: a flow sends at most two lookup requests; the second one is sent only
\* after a first response whose JSON error signals an invalid credential and
\* a non-blank answer to the prompt that followed it; nothing is sent after
\* the second one, whatever its response.
C1_AtMostOneRetry ==
  \A f \in Flows :
    LET reqs == At(f, "fetch")
        resps == At(f, "response")
    IN /\ Cardinality(reqs) <= 2
       /\ Cardinality(reqs) = 2 =>
            \E i \in resps, j \in At(f, "prompt.answer") :
              /\ Min(reqs) < i /\ i < j /\ j < Max(reqs)
              /\ i = Min(resps)
              /\ SignalsInvalid(log[f][i][2])
              /\ EnteredKey(log[f][j][2]) # <<>>
       /\ Cardinality(resps) = 2 => \A k \in reqs : k < Max(resps)

C1_Witness ==
  \E f \in Flows :
    /\ Ended(f)
    /\ Cardinality(At(f, "fetch")) = 2
    /\ Cardinality(At(f, "response")) = 2
    /\ ~SignalsInvalid(retryRes[f])

\* Every response body of the flow could be read (no text() call rejected,
\* and no fetch either).
NoTransportFailure(f) ==
  \A i \in At(f, "alert") : ~(IsErrorAlert(log[f][i]) /\ log[f][i][2][2] = <<"Failed to fetch">>)

\* Flow f received and read both a first and a retry response.
RetryRead(f) ==
  /\ Cardinality(At(f, "response")) = 2
  /\ NoTransportFailure(f)
  /\ pc[f] # "text2"

\* C2 (as claimed): after an invalid-credential first response and a retry
\* whose response is a JSON object without error field and with a success
\* status, the flow ends having asked for the popup with the page built from
\* the retry response, and having shown no error alert, whatever the HTTP
\* status of the first response was.
C2_RetrySuccessIsRendered ==
  \A f \in Flows :
    ( /\ Ended(f)
      /\ RetryRead(f)
      /\ SignalsInvalid(res[f])
      /\ IsObject(retryRes[f]) /\ ~HasErrorField(retryRes[f])
      /\ retryRes[f].status \in 200..299 )
    => /\ \E i \in At(f, "showPopup") :
            log[f][i][2] = RenderPage(name[f], retryRes[f].body.value)
       /\ \A i \in At(f, "alert") : ~IsErrorAlert(log[f][i])

\* C3: when the first and the retry response both signal an invalid
\* credential, the flow issues storage.set("") right after the retry
\* response, then the error alert, and ends: two requests, no further
\* prompt, no popup, and the stored credential is empty at the end.
C3_SecondInvalidIsTerminal ==
  \A f \in Flows :
    ( /\ Ended(f)
      /\ RetryRead(f)
      /\ SignalsInvalid(res[f])
      /\ SignalsInvalid(retryRes[f]) )
    => LET r1 == Min(At(f, "response"))
           r2 == Max(At(f, "response"))
       IN /\ Len(log[f]) = r2 + 2
          /\ log[f][r2 + 1] = <<"storage.set", <<>>>>
          /\ IsErrorAlert(log[f][r2 + 2])
          /\ Cardinality(At(f, "fetch")) = 2
          /\ Cardinality({j \in At(f, "prompt") : j > r1}) = 1
          /\ At(f, "showPopup") = {} /\ At(f, "window") = {}
          /\ store = JStr(<<>>)

C3_Witness ==
  \E f \in Flows :
    /\ Ended(f)
    /\ RetryRead(f)
    /\ SignalsInvalid(res[f])
    /\ SignalsInvalid(retryRes[f])
    /\ log[f][2][2] = JStr(<<107, 49>>)

\* The stored credential was empty (or unset) when flow f read it.
StartedWithoutKey(f) ==
  /\ Len(log[f]) >= 2
  /\ log[f][2][1] = "storage.got"
  /\ log[f][2][2] \in {JUndef, JStr(<<>>)}

\* C4: when the stored credential is empty at the start, exactly one prompt
\* precedes the first request; and when the answer is a cancel or blank,
\* the flow shows the "required" alert and ends there: no request, and the
\* stored credential as it was.
C4_FirstRunPrompt ==
  \A f \in Flows :
    StartedWithoutKey(f) =>
      /\ At(f, "fetch") # {} =>
           Cardinality({j \in At(f, "prompt") : j < Min(At(f, "fetch"))}) = 1
      /\ Len(log[f]) = 2 => pc[f] = "getApiKey"
      /\ Len(log[f]) >= 3 => log[f][3][1] = "prompt"
      /\ ( /\ At(f, "prompt.answer") # {}
           /\ EnteredKey(log[f][Min(At(f, "prompt.answer"))][2]) = <<>> )
         => /\ Len(log[f]) = 5
            /\ IsRequiredAlert(log[f][5])
            /\ At(f, "fetch") = {}
            /\ pc[f] \in {"alertRequired1", "done"}
            /\ store = log[f][2][2]

C4_Witness ==
  \E f \in Flows :
    /\ StartedWithoutKey(f)
    /\ Ended(f)
    /\ log[f][4] = <<"prompt.answer", JStr(<<32, 32>>)>>

\* C5: every response whose error field contains "invalid api key" in some
\* letter case is followed at once by storage.set(""), then by an alert (the
\* notice after the first response, the error alert after the retry), the
\* store being empty when that alert is up; after the first such response
\* the prompt comes next.  No popup is asked for such a response and the
\* flow does not end without the alert.
C5_InvalidKeyClearsAndNotifies ==
  \A f \in Flows :
    \A i \in At(f, "response") :
      (SignalsInvalid(log[f][i][2]) /\ NoTransportFailure(f) /\ Len(log[f]) > i) =>
        LET n == Len(log[f])
            first == i = Min(At(f, "response"))
        IN /\ log[f][i + 1] = <<"storage.set", <<>>>>
           /\ n >= i + 2 =>
                IF first THEN IsNoticeAlert(log[f][i + 2]) ELSE IsErrorAlert(log[f][i + 2])
           /\ n = i + 2 => store = JStr(<<>>)
           /\ (first /\ n >= i + 3) => log[f][i + 3][1] = "prompt"
           /\ \A j \in At(f, "showPopup") :
                j > i => \E k \in At(f, "response") : i < k /\ k < j
           /\ Ended(f) => n >= i + 2

C5_Witness ==
  \E f \in Flows :
    /\ Ended(f)
    /\ RetryRead(f)
    /\ res[f].body.value = Envelope(JStr(<<69, 58, 32, 73, 78, 86, 65, 76, 73, 68, 32, 65, 80, 73, 32, 75, 69, 89>>), JUndef, JUndef, JUndef)
    /\ SignalsInvalid(retryRes[f])

\* The text of the error field of response r.
ErrorText(r) == r.body.value[2].error[2]

\* The response at position i of the log of f is followed by the alert
\* "Error checking name: Server error: <its error text>" and by nothing else.
AbortsWithServerError(f, i) ==
  /\ Len(log[f]) = i + 1
  /\ log[f][i + 1] =
       <<"alert", <<"Error checking name:", <<"Server error:", ErrorText(log[f][i][2])>>>>>>

\* C6 (as claimed): a response, first or retry, of any HTTP status, that
\* carries an error field not signalling an invalid credential makes the
\* flow show that error in an alert and stop: no request, no popup and no
\* storage.set follow.
C6_OtherErrorAborts ==
  \A f \in Flows :
    \A i \in At(f, "response") :
      ( /\ HasErrorField(log[f][i][2]) /\ ~SignalsInvalid(log[f][i][2])
        /\ NoTransportFailure(f) /\ Len(log[f]) > i )
      => AbortsWithServerError(f, i)

\* C6 (amended): the same for an error field that is not empty.
C6_NonEmptyOtherErrorAborts ==
  \A f \in Flows :
    \A i \in At(f, "response") :
      ( /\ HasErrorField(log[f][i][2]) /\ ~SignalsInvalid(log[f][i][2])
        /\ ErrorText(log[f][i][2]) # <<>>
        /\ NoTransportFailure(f) /\ Len(log[f]) > i )
      => AbortsWithServerError(f, i)

C6_Witness ==
  \E f \in Flows :
    /\ Ended(f)
    /\ RetryRead(f)
    /\ retryRes[f].status = 401
    /\ HasErrorField(retryRes[f])
    /\ ErrorText(retryRes[f]) = <<82, 97, 116, 101, 32, 108, 105, 109, 105, 116>>
    /\ AbortsWithServerError(f, Max(At(f, "response")))

\* The alert at position i of the log of f reports a transport error.
IsTransportAlert(e) == IsErrorAlert(e) /\ e[2][2][1] = "HTTP"

\* C7 (as claimed): when the last response of a flow is valid JSON without
\* error field and has a failure status, the flow ends with the transport
\* error alert and no popup; and a transport error alert is shown only when
\* the last response (the one to render) has a failure status.
C7_TransportErrorIffFailureStatus ==
  \A f \in Flows :
    (Ended(f) /\ At(f, "response") # {} /\ NoTransportFailure(f)) =>
      LET last == log[f][Max(At(f, "response"))][2]
      IN /\ (last.body.json /\ ~HasErrorField(last) /\ last.status \notin 200..299)
              => /\ IsTransportAlert(log[f][Len(log[f])])
                 /\ At(f, "showPopup") = {}
         /\ (\E i \in At(f, "alert") : IsTransportAlert(log[f][i]))
              => last.status \notin 200..299

\* What a flow has come to: the page written to the popup window and no
\* terminal alert, or exactly one terminal alert, issued last, and no page.
OneOutcome(f) ==
  LET n == Len(log[f])
      terminal == {i \in At(f, "alert") : IsTerminalAlert(log[f][i])}
  IN /\ n > 0
     /\ \/ log[f][n] = <<"window", "written">> /\ terminal = {}
        \/ terminal = {n} /\ At(f, "window") = {}

\* C8: under fair scheduling every flow that got past the guards ends, and
\* it ends in one outcome; once a terminal alert is issued nothing else is.
C8_FlowEndsInOneOutcome ==
  /\ \A f \in Flows : (pc[f] = "getApiKey") ~> Ended(f)
  /\ [](\A f \in Flows :
          /\ Ended(f) => OneOutcome(f)
          /\ \A i \in At(f, "alert") : IsTerminalAlert(log[f][i]) => i = Len(log[f]))

C8_Witness ==
  \E f \in Flows :
    /\ Ended(f)
    /\ Cardinality(At(f, "fetch")) = 2
    /\ Cardinality(At(f, "response")) = 1
    /\ ~NoTransportFailure(f)

\* Flow f read a non-empty stored credential at its start.
StartedWithKey(f) ==
  /\ Len(log[f]) >= 2
  /\ log[f][2] = <<"storage.got", JStr(<<107, 49>>)>>

\* C9: the store changes only when a storage.set of a flow completes, to the
\* value of that call; a storage.set of a non-empty value comes right after
\* a prompt answer and carries the key entered there; a storage.set of ""
\* comes right after a response signalling an invalid credential.  A flow
\* that started with a stored credential and ended without such a response
\* called no storage.set and leaves the store as it was.
C9_StoreFrame ==
  /\ [][store' # store =>
          \E f \in Flows :
            /\ pc[f] \in {"setKey1", "setKey2", "clearKey1", "clearKey2"}
            /\ log[f][Len(log[f])][1] = "storage.set"
            /\ store' = JStr(log[f][Len(log[f])][2])]_vars
  /\ [](\A f \in Flows :
          /\ \A j \in At(f, "storage.set") :
               IF log[f][j][2] # <<>>
               THEN /\ log[f][j - 1][1] = "prompt.answer"
                    /\ EnteredKey(log[f][j - 1][2]) = log[f][j][2]
               ELSE /\ log[f][j - 1][1] = "response"
                    /\ SignalsInvalid(log[f][j - 1][2])
          /\ ( /\ Ended(f) /\ StartedWithKey(f)
               /\ \A i \in At(f, "response") : ~SignalsInvalid(log[f][i][2]) )
             => /\ At(f, "storage.set") = {}
                /\ store = log[f][2][2])

C9_Witness ==
  \E f \in Flows :
    /\ Ended(f) /\ StartedWithKey(f)
    /\ log[f][Len(log[f])] =
         <<"alert", <<"Error checking name:", <<"Response not JSON. HTTP", 401>>>>>>

\* C10: normalizePersian returns a string for every argument (the empty
\* string for null and for the empty string), and applying it to its own
\* result gives that result again.
C10_NormalizeTotalIdempotent ==
  /\ \A i \in 1..Len(nOut) : nOut[i] \in Seq(0..65535)
  /\ (Len(nOut) >= 1 /\ nIn \in {JUndef, JStr(<<>>)}) => nOut[1] = <<>>
  /\ Len(nOut) = 2 => nOut[2] = nOut[1]

C10_Witness ==
  /\ nIn = JStr(<<32, 1610, 44>>)
  /\ nOut = << <<1740>>, <<1740>> >>

\* The letters of the Persian alphabet (hamza, alef with madda and yeh with
\* hamza included), the Persian digits.
IsPersianLetter(c) ==
  c \in {1569, 1570, 1574, 1575, 1576} \cup (1578..1594) \cup {1601, 1602} \cup (1604..1608)
        \cup {1662, 1670, 1688, 1705, 1711, 1740}
IsPersianDigit(c) == c \in 1776..1785

\* The classes the claims name: zero-width and bidi controls; diacritics and
\* tatweel; # _ ( ) and the two commas; the Arabic letters that are mapped.
ZeroWidthRanges == (8203..8207) \cup (8234..8238) \cup {8288, 65279}
DiacriticRanges == (1552..1562) \cup (1611..1631) \cup {1648} \cup (1750..1773) \cup {1600}
RemovedSymbols == {35, 95, 40, 41, 1548, 44}
ArabicSourceLetters == {1610, 1603, 1577, 1572, 1573, 1571, 1649}
ForeignDigits == (48..57) \cup (1632..1641)

\* The code units the normalizer is described to replace or remove.
IsHandled(c) ==
  \/ c \in ZeroWidthRanges \cup DiacriticRanges \cup RemovedSymbols
  \/ c \in ArabicSourceLetters \cup ForeignDigits
  \/ IsWhiteSpace(c)

\* The normalizer was applied to a string.
NormalizedString == nIn[1] = "string" /\ Len(nOut) >= 1

\* The code units of a string.
UnitsOf(s) == {s[i] : i \in 1..Len(s)}

\* C11 (as claimed): the result of normalizePersian on a string holds only
\* Persian letters, Persian digits and spaces.
C11_OnlyPersian ==
  NormalizedString =>
    \A c \in UnitsOf(nOut[1]) : IsPersianLetter(c) \/ IsPersianDigit(c) \/ c = 32

\* C11 (amended): each code unit of the result is a Persian letter, a Persian
\* digit, a space, or a code unit of the input of none of the classes the
\* normalizer replaces or removes, which is kept as it is; so an input of
\* Persian letters and of code units of those classes only gives Persian
\* letters, Persian digits and spaces only.
C11_OnlyPersianOrKept ==
  NormalizedString =>
    /\ \A c \in UnitsOf(nOut[1]) :
         \/ IsPersianLetter(c) \/ IsPersianDigit(c) \/ c = 32
         \/ c \in UnitsOf(nIn[2]) /\ ~IsHandled(c)
    /\ (\A c \in UnitsOf(nIn[2]) : IsPersianLetter(c) \/ IsPersianDigit(c) \/ IsHandled(c))
         => \A c \in UnitsOf(nOut[1]) : IsPersianLetter(c) \/ IsPersianDigit(c) \/ c = 32

C11_Witness ==
  /\ nIn = JStr(<<97, 1610, 51>>)
  /\ nOut = << <<97, 1740, 1779>> >>

\* C12: the result of normalizePersian on a string holds no zero-width or
\* bidi control, no diacritic or tatweel, none of # _ ( ) and the two commas,
\* none of the Arabic letters that are mapped, no two spaces in a row, and no
\* space at either end.
C12_NoRemovedClass ==
  NormalizedString =>
    LET out == nOut[1]
    IN /\ \A c \in UnitsOf(out) :
            /\ c \notin ZeroWidthRanges
            /\ c \notin DiacriticRanges
            /\ c \notin RemovedSymbols
            /\ c \notin ArabicSourceLetters
       /\ \A i \in 1..(Len(out) - 1) : ~(out[i] = 32 /\ out[i + 1] = 32)
       /\ out # <<>> => (out[1] # 32 /\ out[Len(out)] # 32)

C12_Witness ==
  /\ nIn = JStr(<<32, 1603, 1611>>)
  /\ nOut = << <<1705>> >>

\* A digit of one of the three scripts and its numeric value.
IsAnyDigit(c) == c \in (48..57) \cup (1632..1641) \cup (1776..1785)
DigitValue(c) ==
  CASE c \in 48..57 -> c - 48
    [] c \in 1632..1641 -> c - 1632
    [] c \in 1776..1785 -> c - 1776

\* C13: the digits of the result are, in order, the Persian digits of the
\* values of the digits of the input (Latin, Arabic-Indic or Persian), and
\* the result holds no Latin and no Arabic-Indic digit.
C13_DigitsKeepValue ==
  NormalizedString =>
    LET din == SelectSeq(nIn[2], IsAnyDigit)
        dout == SelectSeq(nOut[1], IsAnyDigit)
    IN /\ Len(dout) = Len(din)
       /\ \A i \in 1..Len(din) : dout[i] = 1776 + DigitValue(din[i])
       /\ \A c \in UnitsOf(nOut[1]) : c \notin ForeignDigits

C13_Witness ==
  /\ nIn = JStr(<<32, 1641, 97>>)
  /\ nOut = << <<1785, 97>> >>

\* The five entities and the character each stands for.
Entities ==
  { [text |-> <<38, 97, 109, 112, 59>>, char |-> 38],
    [text |-> <<38, 108, 116, 59>>, char |-> 60],
    [text |-> <<38, 103, 116, 59>>, char |-> 62],
    [text |-> <<38, 113, 117, 111, 116, 59>>, char |-> 34],
    [text |-> <<38, 35, 48, 51, 57, 59>>, char |-> 39] }

\* The entities that string s has at position i.
EntitiesAt(s, i) ==
  {e \in Entities : i + Len(e.text) - 1 <= Len(s) /\ SubSeq(s, i, i + Len(e.text) - 1) = e.text}

\* Decoding of the five entities, from left to right.
RECURSIVE DecodeEntities(_)
DecodeEntities(s) ==
  IF s = <<>> THEN <<>>
  ELSE IF EntitiesAt(s, 1) # {}
  THEN LET e == CHOOSE e \in EntitiesAt(s, 1) : TRUE
       IN <<e.char>> \o DecodeEntities(SubSeq(s, Len(e.text) + 1, Len(s)))
  ELSE <<Head(s)>> \o DecodeEntities(Tail(s))

\* C14: escapeHtml gives "" for null and undefined; its result holds no raw
\* < > " or '; every & of the result starts exactly one of the five
\* entities; and decoding the entities gives the stringified argument back.
C14_EscapeDecodes ==
  Len(nOut) = 1 =>
    LET out == nOut[1]
    IN /\ nIn = JUndef => out = <<>>
       /\ \A c \in UnitsOf(out) : c \notin {60, 62, 34, 39}
       /\ \A i \in 1..Len(out) : out[i] = 38 => Cardinality(EntitiesAt(out, i)) = 1
       /\ DecodeEntities(out) = IF nIn = JUndef THEN <<>> ELSE String(nIn)

C14_Witness ==
  /\ nIn = JStr(<<38, 108, 116, 59>>)
  /\ nOut = << <<38, 97, 109, 112, 59, 108, 116, 59>> >>

\* The exists flag of a response, sent as exist or else as exists, is true:
\* true, 1, "1" or "true" in any letter case.
FlagIsTrue(p) ==
  LET flag == IF p[2].exist # JUndef THEN p[2].exist ELSE p[2].exists
  IN \/ flag \in {JBool(TRUE), JNum(1), JStr(<<49>>)}
     \/ flag[1] = "string" /\ ToLowerCase(flag[2]) = <<116, 114, 117, 101>>

\* The matches of a response (none when the list is absent).
MatchesOf(p) == IF p[2].matches = JUndef THEN <<>> ELSE p[2].matches[2]

\* A page was built from the response nIn[3] for the name nIn[2].
PageBuilt == Len(nOut) = 1 /\ nOut[1][1] = "page"

\* The page has one block per match of the response, in the order of the
\* matches, numbered 1, 2, ...
BlocksFollowMatches(page, p) ==
  /\ Len(page.blocks) = Len(MatchesOf(p))
  /\ \A i \in 1..Len(page.blocks) :
       /\ page.blocks[i].index = i
       /\ DecodeEntities(page.blocks[i].fullName) = String(MatchesOf(p)[i].fullName)

\* C15 (as claimed): for a response with exists true and k >= 1 matches the
\* page has the banner FOUND k MATCH (k = 1) or FOUND k MATCHES (k > 1) and
\* then k blocks, one per match, in the order of the matches, numbered 1..k.
C15_FoundBanner ==
  (PageBuilt /\ FlagIsTrue(nIn[3]) /\ Len(MatchesOf(nIn[3])) >= 1) =>
    LET page == nOut[1][2]
        k == Len(MatchesOf(nIn[3]))
    IN /\ page.banner = "FOUND"
       /\ page.count = k
       /\ page.suffix = IF k > 1 THEN "ES" ELSE ""
       /\ BlocksFollowMatches(page, nIn[3])

\* C15 (amended): the number n of the banner is the count field of the
\* response when that is a number other than 0, and k when count is absent
\* or 0; the banner is FOUND n MATCH for n = 1 and FOUND n MATCHES for n > 1;
\* the k blocks are as claimed.
C15_FoundBannerOfCount ==
  (PageBuilt /\ FlagIsTrue(nIn[3]) /\ Len(MatchesOf(nIn[3])) >= 1) =>
    LET page == nOut[1][2]
        k == Len(MatchesOf(nIn[3]))
        n == IF nIn[3][2].count \in {JUndef, JNum(0)} THEN k ELSE nIn[3][2].count[2]
    IN /\ page.banner = "FOUND"
       /\ page.count = n
       /\ page.suffix = IF n > 1 THEN "ES" ELSE ""
       /\ BlocksFollowMatches(page, nIn[3])

C15_Witness ==
  /\ PageBuilt
  /\ nIn[3] = Envelope(JUndef, JBool(TRUE), JNum(2), JArr(<<Match(2), Match(1)>>))
  /\ nOut[1][2].banner = "FOUND" /\ nOut[1][2].count = 2 /\ nOut[1][2].suffix = "ES"
  /\ Len(nOut[1][2].blocks) = 2
  /\ nOut[1][2].blocks[1].fullName = <<1593, 1604, 1740, 32, 50>>

\* The href of the web-search link for each name, before it is escaped for
\* the attribute: the search URL and the name in percent-encoded UTF-8.
WebSearchLink(nm) ==
  GoogleSearch \o
    CASE nm = <<1593, 1604, 1740>> ->
           <<37, 68, 56, 37, 66, 57, 37, 68, 57, 37, 56, 52, 37, 68, 66, 37, 56, 67>>
      [] nm = <<97, 38, 39>> -> <<97, 37, 50, 54, 39>>
      [] nm = <<55357, 56832>> -> <<37, 70, 48, 37, 57, 70, 37, 57, 56, 37, 56, 48>>

\* C16: a page that is built has the FOUND banner exactly when the exists
\* flag of the response is true and its matches are not empty; otherwise it
\* has the NOT FOUND banner, the web-search link for the name and no block.
\* The found page has blocks and no web-search link.
C16_OneBanner ==
  PageBuilt =>
    LET page == nOut[1][2]
        p == nIn[3]
    IN /\ page.banner \in {"FOUND", "NOT FOUND"}
       /\ page.banner = "FOUND" <=> (FlagIsTrue(p) /\ Len(MatchesOf(p)) >= 1)
       /\ page.banner = "NOT FOUND" =>
            /\ page.blocks = <<>>
            /\ DecodeEntities(page.link) = WebSearchLink(nIn[2])
       /\ page.banner = "FOUND" => (page.blocks # <<>> /\ page.link = <<>>)

C16_Witness ==
  /\ PageBuilt
  /\ nIn[2] = <<97, 38, 39>>
  /\ nIn[3] = Envelope(JUndef, JBool(FALSE), JNum(0), JArr(<<>>))
  /\ nOut[1][2].banner = "NOT FOUND"
  /\ nOut[1][2].link =
       GoogleSearch \o <<97, 37, 50, 54, 38, 35, 48, 51, 57, 59>>

\* C17: when a flow has just sent a lookup request (first or retry), the
\* apikey of the request is not empty and is the stored credential; the
\* request comes right after the storage.get that returned this key or
\* right after the storage.set that persisted it, the key entered at the
\* prompt; and all requests of the flow carry the flow's normalized name.
C17_RequestCarriesStoredKey ==
  \A f \in Flows :
    /\ pc[f] \in {"fetch1", "fetch2"} =>
         LET req == log[f][Len(log[f])]
         IN /\ req[1] = "fetch"
            /\ req[2].apikey # <<>>
            /\ store = JStr(req[2].apikey)
    /\ \A i \in At(f, "fetch") :
         /\ \/ log[f][i - 1] = <<"storage.got", JStr(log[f][i][2].apikey)>>
            \/ /\ log[f][i - 1] = <<"storage.set", log[f][i][2].apikey>>
               /\ log[f][i - 2][1] = "prompt.answer"
               /\ EnteredKey(log[f][i - 2][2]) = log[f][i][2].apikey
         /\ log[f][i][2].name = name[f]
         /\ log[f][i][2].name \in {<<1593, 1604, 1740>>, <<107, 1779>>}

C17_Witness ==
  \E f \in Flows :
    /\ pc[f] = "fetch2"
    /\ Cardinality(At(f, "fetch")) = 2
    /\ log[f][2] = <<"storage.got", JStr(<<107, 49>>)>>
    /\ store = JStr(<<107, 50>>)
    /\ log[f][Len(log[f])][2].apikey = <<107, 50>>

\* Selection texts with nothing to look up: none, "", and texts of white
\* space, # _ ( ), commas, zero-width characters and diacritics only.
BlankSelections ==
  {JUndef, JStr(<<>>), JStr(<<35, 32>>), JStr(<<32, 9>>), JStr(<<95, 40, 41>>),
   JStr(<<1548, 44>>), JStr(<<8204, 1611>>)}

\* The click is one the listener is to ignore.
IsIgnored(e) ==
  \/ e.menuItemId # "check-name"
  \/ e.tabId = JUndef
  \/ e.selectionText \in BlankSelections

\* C18: a click with another menu item id, without tab id, without selection
\* text or with a selection that normalizes to "" returns at once: the step
\* leaves the store as it is, and the flow has called nothing (no storage
\* read or write, no prompt, no alert, no request, no popup) and calls
\* nothing afterwards.  No request carries an empty name.
C18_IgnoredClickIsSilent ==
  /\ [][\A f \in Flows :
          (event'[f] # event[f] /\ IsIgnored(event'[f])) =>
            (store' = store /\ pc'[f] = "returned" /\ log'[f] = <<>>)]_vars
  /\ [](\A f \in Flows :
          /\ (event[f] # NoEvent /\ IsIgnored(event[f])) =>
               (pc[f] = "returned" /\ log[f] = <<>>)
          /\ \A i \in At(f, "fetch") : log[f][i][2].name # <<>>)

C18_Witness ==
  \E f \in Flows :
    /\ event[f] = [menuItemId |-> "check-name", tabId |-> JNum(7),
                   selectionText |-> JStr(<<8204, 1611>>)]
    /\ pc[f] = "returned"
    /\ log[f] = <<>>
    /\ store = JStr(<<107, 49>>)

\* The last lookup request flow f has sent.
LastRequest(f) == log[f][Max(At(f, "fetch"))][2]

\* C19 (as claimed): under every interleaving of two flows, a step that sets
\* a stored credential to empty completes the storage.set("") of a flow
\* whose last request carried the credential stored at that moment: a
\* credential is not erased because of a request that used an older one.
C19_NoStaleErase ==
  [][\A f \in Flows :
       ( /\ pc[f] \in {"clearKey1", "clearKey2"}
         /\ pc'[f] # pc[f]
         /\ store # JStr(<<>>) )
       => store = JStr(LastRequest(f).apikey)]_vars

====
